---- MODULE Spec2Model ----
(***************************************************************************)
(* A model of the Sinowealth gaming-mouse driver (driver-sinowealth.c):    *)
(* the packed configuration report, sinowealth_read_profile (run by        *)
(* sinowealth_probe), sinowealth_commit and sinowealth_remove, together    *)
(* with the device behind the hidraw feature-report transport and the      *)
(* generic profile (resolutions, LEDs) the driver reads and writes.        *)
(* C arrays keep their 0-based indices (functions over 0..n-1); transport  *)
(* buffers are 1-based sequences of bytes.                                 *)
(***************************************************************************)
EXTENDS Integers, Sequences, FiniteSets, TLC

(* ------------------------------------------------------------------ *)
(* Program constants                                                  *)
(* ------------------------------------------------------------------ *)

SINOWEALTH_REPORT_ID_CONFIG == 4
SINOWEALTH_REPORT_ID_CMD == 5
SINOWEALTH_CMD_GET_CONFIG == 17
SINOWEALTH_CONFIG_SIZE == 520
SINOWEALTH_XY_INDEPENDENT == 128
SINOWEALTH_DPI_MIN == 100
SINOWEALTH_DPI_MAX == 12000
SINOWEALTH_DPI_STEP == 100
SINOWEALTH_NUM_DPIS == 6

RGB_OFF == 0
RGB_GLORIOUS == 1
RGB_SINGLE == 2
RGB_BREATHING == 5
RGB_BREATHING7 == 3
RGB_BREATHING1 == 10
RGB_TAIL == 4
RGB_RAVE == 7
RGB_WAVE == 9

\* config->config_write = 0x7b
CONFIG_WRITE_MAGIC == 123

\* sizeof(cmd) for uint8_t cmd[6]
SIZEOF_CMD == 6

\* the value the driver uses for the one supported report rate
REPORT_RATE_HZ == 1000

\* -ENODEV, what sinowealth_probe returns when the read fails
ENODEV == 19

RATBAG_LED_OFF == "off"
RATBAG_LED_ON == "on"
RATBAG_LED_CYCLE == "cycle"
RATBAG_LED_BREATHING == "breathing"

RATBAG_LED_TYPE_UNKNOWN == "unknown"
RATBAG_LED_TYPE_SIDE == "side"
RATBAG_LED_TYPE_DPI == "dpi"
RATBAG_LED_COLORDEPTH_RGB_888 == "rgb888"
RATBAG_LED_COLORDEPTH_NONE == "none"

(* ------------------------------------------------------------------ *)
(* Bytes and bit operations on uint8_t                                *)
(* ------------------------------------------------------------------ *)

\* conversion of an int to uint8_t on assignment
U8(x) == x % 256

Bit(a, k) == (a \div (2 ^ k)) % 2

\* a & b on values that fit eight bits, bit by bit from the lowest
RECURSIVE And8(_, _)
And8(a, b) ==
    IF a = 0 \/ b = 0 THEN 0
    ELSE (a % 2) * (b % 2) + 2 * And8(a \div 2, b \div 2)

\* the low eight bits of ~m
Not8(m) == 255 - U8(m)

\* an n-element C array as a sequence of its elements
ArrSeq(a, n) == [i \in 1..n |-> a[i - 1]]

Zeros(n) == [i \in 1..n |-> 0]

(* ------------------------------------------------------------------ *)
(* RGB8 and struct sinowealth_config_report                           *)
(* ------------------------------------------------------------------ *)

RGB(r, g, b) == [r |-> r, g |-> g, b |-> b]

RGBBytes(c) == <<c.r, c.g, c.b>>

RECURSIVE RGBArrBytes(_, _)
RGBArrBytes(a, n) ==
    IF n = 0 THEN <<>> ELSE RGBArrBytes(a, n - 1) \o RGBBytes(a[n - 1])

ZeroConfig ==
    [report_id |-> 0, command_id |-> 0, unk1 |-> 0, config_write |-> 0,
     unk2 |-> [i \in 0..5 |-> 0], config |-> 0,
     dpi_count |-> 0, active_dpi |-> 0, dpi_enabled |-> 0,
     dpi |-> [i \in 0..15 |-> 0],
     dpi_color |-> [i \in 0..7 |-> RGB(0, 0, 0)],
     rgb_effect |-> 0, glorious_mode |-> 0, glorious_direction |-> 0,
     single_color |-> RGB(0, 0, 0),
     breathing_mode |-> 0, breathing_colorcount |-> 0,
     breathing_colors |-> [i \in 0..6 |-> RGB(0, 0, 0)],
     tail_mode |-> 0, rave_mode |-> 0,
     rave_colors |-> [i \in 0..1 |-> RGB(0, 0, 0)],
     wave_mode |-> 0, breathing1_mode |-> 0,
     breathing1_color |-> RGB(0, 0, 0),
     unk4 |-> 0, lift_off_distance |-> 0]

\* the bytes of the packed struct, in declaration order; the two 4-bit
\* fields share one byte, dpi_count in the low and active_dpi in the high
\* nibble
StructBytes(c) ==
    <<c.report_id, c.command_id, c.unk1, c.config_write>>
    \o ArrSeq(c.unk2, 6)
    \o <<c.config, c.dpi_count + 16 * c.active_dpi, c.dpi_enabled>>
    \o ArrSeq(c.dpi, 16)
    \o RGBArrBytes(c.dpi_color, 8)
    \o <<c.rgb_effect, c.glorious_mode, c.glorious_direction>>
    \o RGBBytes(c.single_color)
    \o <<c.breathing_mode, c.breathing_colorcount>>
    \o RGBArrBytes(c.breathing_colors, 7)
    \o <<c.tail_mode, c.rave_mode>>
    \o RGBArrBytes(c.rave_colors, 2)
    \o <<c.wave_mode, c.breathing1_mode>>
    \o RGBBytes(c.breathing1_color)
    \o <<c.unk4, c.lift_off_distance>>

\* sizeof(struct sinowealth_config_report)
SizeofConfig == Len(StructBytes(ZeroConfig))

\* the RGB8 stored at byte offset off (0-based) of buffer d
RGBAt(d, off) == RGB(d[off + 1], d[off + 2], d[off + 3])

\* the struct whose bytes are the first sizeof(struct) bytes of d
StructOfBytes(d) ==
    [report_id |-> d[1], command_id |-> d[2], unk1 |-> d[3],
     config_write |-> d[4],
     unk2 |-> [i \in 0..5 |-> d[5 + i]],
     config |-> d[11],
     dpi_count |-> d[12] % 16, active_dpi |-> d[12] \div 16,
     dpi_enabled |-> d[13],
     dpi |-> [i \in 0..15 |-> d[14 + i]],
     dpi_color |-> [i \in 0..7 |-> RGBAt(d, 29 + 3 * i)],
     rgb_effect |-> d[54], glorious_mode |-> d[55],
     glorious_direction |-> d[56],
     single_color |-> RGBAt(d, 56),
     breathing_mode |-> d[60], breathing_colorcount |-> d[61],
     breathing_colors |-> [i \in 0..6 |-> RGBAt(d, 61 + 3 * i)],
     tail_mode |-> d[83], rave_mode |-> d[84],
     rave_colors |-> [i \in 0..1 |-> RGBAt(d, 84 + 3 * i)],
     wave_mode |-> d[91], breathing1_mode |-> d[92],
     breathing1_color |-> RGBAt(d, 92),
     unk4 |-> d[96], lift_off_distance |-> d[97]]

(* ------------------------------------------------------------------ *)
(* Numeric and colour conversions                                     *)
(* ------------------------------------------------------------------ *)

sinowealth_raw_to_dpi(raw) == (raw + 1) * 100

\* C division truncates; dpi is never negative here
sinowealth_dpi_to_raw(dpi) == (dpi \div 100) - 1

sinowealth_raw_to_color(raw) == [red |-> raw.r, green |-> raw.g, blue |-> raw.b]

\* the channels of struct ratbag_color narrow to uint8_t
sinowealth_color_to_raw(color) == RGB(U8(color.red), U8(color.green), U8(color.blue))

(* ------------------------------------------------------------------ *)
(* The generic profile: one profile, six resolutions, seven LEDs      *)
(* ------------------------------------------------------------------ *)

ResIdx == 0..(SINOWEALTH_NUM_DPIS - 1)

LedIdx == 0..SINOWEALTH_NUM_DPIS

Black == [red |-> 0, green |-> 0, blue |-> 0]

\* ratbag_device_init_profiles(device, 1, SINOWEALTH_NUM_DPIS, 0,
\* SINOWEALTH_NUM_DPIS + 1): zero-initialised resolutions and LEDs
InitResolutions ==
    [i \in ResIdx |->
        [dpi_x |-> 0, dpi_y |-> 0, is_active |-> FALSE, is_default |-> FALSE,
         dpis |-> <<>>, caps |-> {}]]

InitLeds ==
    [i \in LedIdx |->
        [type |-> RATBAG_LED_TYPE_UNKNOWN,
         colordepth |-> RATBAG_LED_COLORDEPTH_NONE,
         mode |-> RATBAG_LED_OFF, color |-> Black, modes |-> {}]]

InitProf == [hz |-> 0, rates |-> <<>>, is_active |-> FALSE]

(* ------------------------------------------------------------------ *)
(* sinowealth_read_profile                                            *)
(* ------------------------------------------------------------------ *)

\* int num_dpis = (DPI_MAX - DPI_MIN) / DPI_STEP + 1 + 1
num_dpis == (SINOWEALTH_DPI_MAX - SINOWEALTH_DPI_MIN) \div SINOWEALTH_DPI_STEP + 1 + 1

\* dpis[0] = 0; for (i = 1; i < num_dpis; i++) dpis[i] = DPI_MIN + i * DPI_STEP
\* (element k of the sequence is dpis[k - 1])
GenerateDpiList ==
    [k \in 1..num_dpis |->
        IF k - 1 = 0 THEN 0
        ELSE SINOWEALTH_DPI_MIN + (k - 1) * SINOWEALTH_DPI_STEP]

\* if (rc != sizeof(cmd))
ReadCmdFailed(rc) == rc # SIZEOF_CMD

\* if (rc < sizeof(*config)): rc is an int and sizeof a size_t, so rc is
\* converted to the unsigned type and a negative rc compares as a huge value
ReadTooShort(rc) == rc >= 0 /\ rc < SizeofConfig

\* data = zalloc(SINOWEALTH_CONFIG_SIZE), then the transport copies the
\* rc bytes it got from the device into it (none when it failed)
GetFeatureData(devbuf, rc) ==
    [i \in 1..SINOWEALTH_CONFIG_SIZE |-> IF i <= rc THEN devbuf[i] ELSE 0]

\* memcpy(config, data, sizeof(*config))
ReadMemcpy(data) == StructOfBytes(data)

\* config->config & SINOWEALTH_XY_INDEPENDENT
XYIndependent(config) == And8(config.config, SINOWEALTH_XY_INDEPENDENT) # 0

\* config->dpi_enabled & (1 << index)
SlotDisabled(config, index) == And8(config.dpi_enabled, 2 ^ index) # 0

\* the (dpi_x, dpi_y) the read loop gives resolution index
ReadSlotDpi(config, index) ==
    LET x == IF XYIndependent(config)
             THEN sinowealth_raw_to_dpi(config.dpi[index * 2])
             ELSE sinowealth_raw_to_dpi(config.dpi[index])
        y == IF XYIndependent(config)
             THEN sinowealth_raw_to_dpi(config.dpi[index * 2 + 1])
             ELSE x
    IN  IF SlotDisabled(config, index)
        THEN [dpi_x |-> 0, dpi_y |-> 0]
        ELSE [dpi_x |-> x, dpi_y |-> y]

\* resolution->is_active = resolution->index == config->active_dpi - 1
ReadSlotActive(config, index) == index = config.active_dpi - 1

\* ratbag_profile_for_each_resolution(profile, resolution) { ... }
ReadResolution(r, d, active) ==
    [r EXCEPT !.dpi_x = d.dpi_x, !.dpi_y = d.dpi_y,
              !.is_active = active, !.is_default = active,
              !.dpis = GenerateDpiList,
              !.caps = @ \cup {"separate_xy"}]

ReadResolutions(config, resolutions) ==
    [i \in ResIdx |->
        ReadResolution(resolutions[i], ReadSlotDpi(config, i),
                       ReadSlotActive(config, i))]

\* a slip: a default label on the cycle group, so an effect in no table
\* reads as cycle
ReadBodyEffect_DefaultIsCycle(config, led) ==
    CASE config.rgb_effect = RGB_OFF ->
            [led EXCEPT !.mode = RATBAG_LED_OFF]
      [] config.rgb_effect = RGB_SINGLE ->
            [led EXCEPT !.mode = RATBAG_LED_ON,
                        !.color = sinowealth_raw_to_color(config.single_color)]
      [] config.rgb_effect = RGB_BREATHING1 ->
            [led EXCEPT !.mode = RATBAG_LED_BREATHING,
                        !.color = sinowealth_raw_to_color(config.breathing1_color)]
      [] OTHER -> [led EXCEPT !.mode = RATBAG_LED_CYCLE]

\* switch (config->rgb_effect): there is no default case
ReadBodyEffect(config, led) ==
    CASE config.rgb_effect = RGB_OFF ->
            [led EXCEPT !.mode = RATBAG_LED_OFF]
      [] config.rgb_effect = RGB_SINGLE ->
            [led EXCEPT !.mode = RATBAG_LED_ON,
                        !.color = sinowealth_raw_to_color(config.single_color)]
      [] config.rgb_effect \in {RGB_GLORIOUS, RGB_BREATHING, RGB_BREATHING7,
                                RGB_TAIL, RGB_RAVE, RGB_WAVE} ->
            [led EXCEPT !.mode = RATBAG_LED_CYCLE]
      [] config.rgb_effect = RGB_BREATHING1 ->
            [led EXCEPT !.mode = RATBAG_LED_BREATHING,
                        !.color = sinowealth_raw_to_color(config.breathing1_color)]
      [] OTHER -> led

\* the body LED, led 0
ReadBodyLed(config, led) ==
    ReadBodyEffect(config,
        [led EXCEPT !.type = RATBAG_LED_TYPE_SIDE,
                    !.colordepth = RATBAG_LED_COLORDEPTH_RGB_888,
                    !.modes = @ \cup {RATBAG_LED_OFF, RATBAG_LED_ON,
                                      RATBAG_LED_CYCLE, RATBAG_LED_BREATHING}])

\* the DPI indicator LED i, 1 <= i <= SINOWEALTH_NUM_DPIS
ReadDpiLed(config, led, i) ==
    [led EXCEPT !.type = RATBAG_LED_TYPE_DPI,
                !.colordepth = RATBAG_LED_COLORDEPTH_RGB_888,
                !.mode = RATBAG_LED_ON,
                !.color = sinowealth_raw_to_color(config.dpi_color[i - 1]),
                !.modes = @ \cup {RATBAG_LED_ON}]

ReadLeds(config, leds) ==
    [i \in LedIdx |->
        IF i = 0 THEN ReadBodyLed(config, leds[0])
        ELSE ReadDpiLed(config, leds[i], i)]

\* ratbag_profile_set_report_rate_list, ratbag_profile_set_report_rate,
\* profile->is_active = true
ReadProf(prof) ==
    [prof EXCEPT !.hz = REPORT_RATE_HZ, !.rates = <<REPORT_RATE_HZ>>,
                 !.is_active = TRUE]

\* The whole function. st is [config, resolutions, leds, prof]; devbuf is
\* what the device holds; rc_cmd and rc_get are what the two transport
\* calls return (rc_get is ignored when the first call already failed).
sinowealth_read_profile(st, devbuf, rc_cmd, rc_get) ==
    IF ReadCmdFailed(rc_cmd) THEN [ret |-> -1, st |-> st]
    ELSE IF ReadTooShort(rc_get) THEN [ret |-> -1, st |-> st]
    ELSE LET config == ReadMemcpy(GetFeatureData(devbuf, rc_get))
         IN  [ret |-> 0,
              st |-> [config |-> config,
                      resolutions |-> ReadResolutions(config, st.resolutions),
                      leds |-> ReadLeds(config, st.leds),
                      prof |-> ReadProf(st.prof)]]

(* ------------------------------------------------------------------ *)
(* sinowealth_commit                                                  *)
(* ------------------------------------------------------------------ *)

\* resolution->dpi_x != resolution->dpi_y && resolution->dpi_x && resolution->dpi_y
NeedsIndependentXY(r) == r.dpi_x # r.dpi_y /\ r.dpi_x # 0 /\ r.dpi_y # 0

\* config->config &= ~SINOWEALTH_XY_INDEPENDENT; then, at the first
\* resolution that needs it, config->config &= SINOWEALTH_XY_INDEPENDENT
CommitFlags(flags, resolutions) ==
    LET cleared == And8(flags, Not8(SINOWEALTH_XY_INDEPENDENT))
    IN  IF \E i \in ResIdx : NeedsIndependentXY(resolutions[i])
        THEN And8(cleared, SINOWEALTH_XY_INDEPENDENT)
        ELSE cleared

\* if (resolution->dpi_x && resolution->dpi_y)
SlotEnabled(r) == r.dpi_x # 0 /\ r.dpi_y # 0

\* one pass of the second loop, for resolution r with index i
CommitSlot(config, r, i) ==
    LET c1 == IF XYIndependent(config)
              THEN [config EXCEPT
                      !.dpi[i * 2] = U8(sinowealth_dpi_to_raw(r.dpi_x)),
                      !.dpi[i * 2 + 1] = U8(sinowealth_dpi_to_raw(r.dpi_y))]
              ELSE [config EXCEPT
                      !.dpi[i] = U8(sinowealth_dpi_to_raw(r.dpi_x))]
    IN  IF SlotEnabled(r)
        THEN [c1 EXCEPT !.dpi_enabled = And8(@, Not8(2 ^ i))]
        ELSE c1

\* the second loop over resolutions 0 .. n-1, in order
RECURSIVE CommitSlots(_, _, _)
CommitSlots(config, resolutions, n) ==
    IF n = 0 THEN config
    ELSE CommitSlot(CommitSlots(config, resolutions, n - 1),
                    resolutions[n - 1], n - 1)

\* a slip: the mask starts at 0 as if a set bit enabled a slot, so no slot
\* is ever marked disabled
CommitDpi_MaskStartsClear(config, resolutions) ==
    CommitSlots([config EXCEPT !.dpi_enabled = 0], resolutions,
                SINOWEALTH_NUM_DPIS)

\* config->dpi_enabled = 0xFF, then the loop
CommitDpi(config, resolutions) ==
    CommitSlots([config EXCEPT !.dpi_enabled = 255], resolutions,
                SINOWEALTH_NUM_DPIS)

\* a slip: the RATBAG_LED_CYCLE case does not set rgb_effect, so the effect
\* that was read stays
CommitBodyLed_CycleKeepsEffect(config, led) ==
    CASE led.mode = RATBAG_LED_OFF ->
            [config EXCEPT !.rgb_effect = RGB_OFF]
      [] led.mode = RATBAG_LED_ON ->
            [config EXCEPT !.rgb_effect = RGB_SINGLE,
                           !.single_color = sinowealth_color_to_raw(led.color)]
      [] led.mode = RATBAG_LED_BREATHING ->
            [config EXCEPT !.rgb_effect = RGB_BREATHING1,
                           !.breathing1_color = sinowealth_color_to_raw(led.color)]
      [] OTHER -> config

\* switch (led->mode) for the body LED
CommitBodyLed(config, led) ==
    CASE led.mode = RATBAG_LED_OFF ->
            [config EXCEPT !.rgb_effect = RGB_OFF]
      [] led.mode = RATBAG_LED_ON ->
            [config EXCEPT !.rgb_effect = RGB_SINGLE,
                           !.single_color = sinowealth_color_to_raw(led.color)]
      [] led.mode = RATBAG_LED_CYCLE ->
            [config EXCEPT !.rgb_effect = RGB_GLORIOUS]
      [] led.mode = RATBAG_LED_BREATHING ->
            [config EXCEPT !.rgb_effect = RGB_BREATHING1,
                           !.breathing1_color = sinowealth_color_to_raw(led.color)]
      [] OTHER -> config

\* for (i = 1; i < SINOWEALTH_NUM_DPIS + 1; i++) config->dpi_color[i - 1] = ...
CommitDpiLeds(config, leds) ==
    [config EXCEPT !.dpi_color =
        [k \in 0..7 |->
            IF k + 1 \in 1..SINOWEALTH_NUM_DPIS
            THEN sinowealth_color_to_raw(leds[k + 1].color)
            ELSE @[k]]]

\* config->config_write = 0x7b
CommitMagic(config) == [config EXCEPT !.config_write = CONFIG_WRITE_MAGIC]

\* the cached report as sinowealth_commit leaves it
CommitConfig(config, resolutions, leds) ==
    CommitMagic(
      CommitDpiLeds(
        CommitBodyLed(
          CommitDpi([config EXCEPT !.config = CommitFlags(@, resolutions)],
                    resolutions),
          leds[0]),
        leds))

\* data = zalloc(SINOWEALTH_CONFIG_SIZE); memcpy(data, config, sizeof(*config))
CommitData(config) ==
    StructBytes(config) \o Zeros(SINOWEALTH_CONFIG_SIZE - SizeofConfig)

\* a slip: only an error code fails the commit, a short write passes
CommitRet_ShortWritePasses(rc) == IF rc < 0 THEN -1 ELSE 0

\* if (rc != SINOWEALTH_CONFIG_SIZE) return -1; ... return 0
CommitRet(rc) == IF rc # SINOWEALTH_CONFIG_SIZE THEN -1 ELSE 0

(* ------------------------------------------------------------------ *)
(* Bounds and inputs of the model                                     *)
(* ------------------------------------------------------------------ *)

\* probes and commits in one behaviour
MaxOps == 3

\* changes the user makes to the generic profile in one behaviour
MaxEdits == 1

\* a report as the device may hold it: every opaque field is nonzero and
\* distinct, so that a commit that disturbs one is noticed
SampleReport(flags, mask, dpi, active, effect) ==
    [report_id |-> SINOWEALTH_REPORT_ID_CONFIG,
     command_id |-> SINOWEALTH_CMD_GET_CONFIG,
     unk1 |-> 33, config_write |-> 0,
     unk2 |-> [i \in 0..5 |-> 40 + i], config |-> flags,
     dpi_count |-> SINOWEALTH_NUM_DPIS, active_dpi |-> active,
     dpi_enabled |-> mask,
     dpi |-> [i \in 0..15 |-> dpi[i + 1]],
     dpi_color |-> [i \in 0..7 |-> RGB(10 * i, 255 - i, 7)],
     rgb_effect |-> effect, glorious_mode |-> 65, glorious_direction |-> 1,
     single_color |-> RGB(255, 0, 0),
     breathing_mode |-> 66, breathing_colorcount |-> 7,
     breathing_colors |-> [i \in 0..6 |-> RGB(i, 2 * i, 100 + i)],
     tail_mode |-> 49, rave_mode |-> 50,
     rave_colors |-> [i \in 0..1 |-> RGB(200 + i, 0, 200)],
     wave_mode |-> 51, breathing1_mode |-> 2,
     breathing1_color |-> RGB(0, 0, 255),
     unk4 |-> 9, lift_off_distance |-> 1]

\* raw DPI bytes whose pairs differ when read two bytes per slot
DpiMixed == <<7, 3, 7, 7, 15, 15, 3, 7, 0, 119, 11, 11, 1, 2, 3, 4>>

\* raw DPI bytes whose pairs agree when read two bytes per slot
DpiPaired == <<7, 7, 3, 3, 15, 15, 23, 23, 119, 119, 255, 255, 5, 6, 7, 8>>

\* effect_id values: the nine known ones and three that are in no table
SampleEffects == 0..11

SampleReports ==
    {SampleReport(flags, mask, DpiMixed, 1, RGB_SINGLE) :
        flags \in {5, 133}, mask \in {0, 36}}
    \cup {SampleReport(flags, mask, DpiPaired, 3, RGB_BREATHING1) :
        flags \in {5, 133}, mask \in {0, 194}}
    \cup {SampleReport(133, 36, DpiMixed, 1, effect) : effect \in SampleEffects}

\* what the device holds: the report, then bytes the driver never reads
DeviceBuffer(report) ==
    StructBytes(report)
    \o [i \in 1..(SINOWEALTH_CONFIG_SIZE - SizeofConfig) |-> 165]

\* what the two transport calls of a read may return: an error (-EIO), a
\* short count, the full count
CmdRcs == {-5, 0, SIZEOF_CMD}

GetRcs == {-5, 0, SizeofConfig - 1, SizeofConfig, SINOWEALTH_CONFIG_SIZE}

\* what the transport call of a commit may return
SetRcs == {-5, SINOWEALTH_CONFIG_SIZE - 1, SINOWEALTH_CONFIG_SIZE}

\* values the user sets
EditRes == {0, 5}

EditDpis == {<<0, 0>>, <<800, 800>>, <<400, 800>>, <<800, 0>>}

EditColors == {[red |-> 1, green |-> 2, blue |-> 3]}

EditDpiLeds == {1, SINOWEALTH_NUM_DPIS}

LedModes == {RATBAG_LED_OFF, RATBAG_LED_ON, RATBAG_LED_CYCLE, RATBAG_LED_BREATHING}

(* ------------------------------------------------------------------ *)
(* State                                                              *)
(* ------------------------------------------------------------------ *)

VARIABLES
    phase,        \* "unprobed", "probed" (drv_data exists) or "failed"
    config,       \* drv_data->config, the cached report
    resolutions,  \* the profile's six resolutions
    leds,         \* the profile's seven LEDs
    prof,         \* the profile's report rate and is_active
    dev,          \* the 520 bytes the device holds
    io,           \* the last operation: its transport results and return
    wire,         \* what the last commit handed to the transport
    hist,         \* what earlier operations saw, for the properties
    dirty,        \* the profile was changed since the last read
    nops,
    nedits

vars == <<phase, config, resolutions, leds, prof, dev, io, wire, hist, dirty,
          nops, nedits>>

DpiPairs(rs) == [i \in ResIdx |-> <<rs[i].dpi_x, rs[i].dpi_y>>]

IdleIo ==
    [op |-> "none", stage |-> "none", rc_cmd |-> 0, rc_get |-> 0, rc_set |-> 0,
     read_ret |-> 0, ret |-> 0]

NoWire == [report_id |-> 0, data |-> <<>>, len |-> 0, attempts |-> 0]

InitHist ==
    [read |-> ZeroConfig, led0 |-> InitLeds[0],
     dpi |-> DpiPairs(InitResolutions), prev_dpi |-> DpiPairs(InitResolutions),
     pre |-> ZeroConfig, full |-> FALSE, clean |-> FALSE, rt |-> FALSE]

Init ==
    /\ phase = "unprobed"
    /\ config = ZeroConfig
    /\ resolutions = InitResolutions
    /\ leds = InitLeds
    /\ prof = InitProf
    /\ dev \in {DeviceBuffer(r) : r \in SampleReports}
    /\ io = IdleIo
    /\ wire = NoWire
    /\ hist = InitHist
    /\ dirty = FALSE
    /\ nops = 0
    /\ nedits = 0

(* ------------------------------------------------------------------ *)
(* Operations                                                         *)
(* ------------------------------------------------------------------ *)

\* sinowealth_probe when ratbag_find_hidraw finds no interface: goto err
ProbeNoHidraw ==
    /\ phase = "unprobed"
    /\ nops < MaxOps
    /\ io' = [IdleIo EXCEPT !.op = "probe", !.stage = "hidraw", !.ret = -ENODEV]
    /\ nops' = nops + 1
    /\ phase' = "failed"
    /\ hist' = [hist EXCEPT !.rt = FALSE]
    /\ UNCHANGED <<config, resolutions, leds, prof, dev, wire, dirty, nedits>>

\* sinowealth_probe with a hidraw interface: zalloc drv_data, initialise
\* the profile, sinowealth_read_profile; on failure free drv_data and
\* return -ENODEV
ProbeRead(rc_cmd, rc_get) ==
    /\ phase = "unprobed"
    /\ nops < MaxOps
    /\ \E r \in {sinowealth_read_profile(
                    [config |-> ZeroConfig, resolutions |-> InitResolutions,
                     leds |-> InitLeds, prof |-> InitProf],
                    dev, rc_cmd, rc_get)} :
        /\ nops' = nops + 1
        /\ io' = [IdleIo EXCEPT
                    !.op = "probe",
                    !.stage = IF ReadCmdFailed(rc_cmd) THEN "cmd" ELSE "get",
                    !.rc_cmd = rc_cmd,
                    !.rc_get = IF ReadCmdFailed(rc_cmd) THEN 0 ELSE rc_get,
                    !.read_ret = r.ret,
                    !.ret = IF r.ret # 0 THEN -ENODEV ELSE 0]
        /\ config' = r.st.config
        /\ resolutions' = r.st.resolutions
        /\ leds' = r.st.leds
        /\ prof' = r.st.prof
        /\ phase' = IF r.ret # 0 THEN "failed" ELSE "probed"
        /\ hist' = IF r.ret # 0 THEN [hist EXCEPT !.rt = FALSE]
                   ELSE [hist EXCEPT !.read = r.st.config,
                                     !.led0 = r.st.leds[0],
                                     !.dpi = DpiPairs(r.st.resolutions),
                                     !.prev_dpi = hist.dpi,
                                     !.pre = r.st.config,
                                     !.full = rc_get >= SizeofConfig,
                                     !.rt = hist.clean /\ rc_get >= SizeofConfig,
                                     !.clean = FALSE]
        /\ dirty' = FALSE
        /\ UNCHANGED <<dev, wire, nedits>>

sinowealth_probe ==
    \/ ProbeNoHidraw
    \/ \E rc_cmd \in CmdRcs :
          /\ ReadCmdFailed(rc_cmd)
          /\ ProbeRead(rc_cmd, 0)
    \/ \E rc_get \in GetRcs : ProbeRead(SIZEOF_CMD, rc_get)

\* sinowealth_commit, with rc what the transport returns for the write.
\* The device keeps the bytes when it took all of them, and reports
\* config_write as 0 afterwards.
sinowealth_commit ==
    /\ phase = "probed"
    /\ nops < MaxOps
    /\ \E c \in {CommitConfig(config, resolutions, leds)} :
       \E data \in {CommitData(c)} :
       \E rc \in SetRcs :
            /\ nops' = nops + 1
            /\ config' = c
            /\ wire' = [report_id |-> SINOWEALTH_REPORT_ID_CONFIG,
                        data |-> data, len |-> SINOWEALTH_CONFIG_SIZE,
                        attempts |-> 1]
            /\ io' = [IdleIo EXCEPT !.op = "commit", !.stage = "set",
                                    !.rc_set = rc, !.ret = CommitRet(rc)]
            /\ dev' = IF rc = SINOWEALTH_CONFIG_SIZE
                      THEN [data EXCEPT ![4] = 0]
                      ELSE dev
            /\ hist' = [hist EXCEPT
                          !.pre = config,
                          !.rt = FALSE,
                          !.clean = IF rc = SINOWEALTH_CONFIG_SIZE
                                    THEN ~dirty /\ hist.full ELSE @]
            /\ UNCHANGED <<phase, resolutions, leds, prof, dirty, nedits>>

\* sinowealth_remove: the hidraw node is closed and drv_data freed; the
\* device keeps what it holds
sinowealth_remove ==
    /\ phase = "probed"
    /\ phase' = "unprobed"
    /\ config' = ZeroConfig
    /\ resolutions' = InitResolutions
    /\ leds' = InitLeds
    /\ prof' = InitProf
    /\ io' = [IdleIo EXCEPT !.op = "remove"]
    /\ wire' = NoWire
    /\ hist' = [InitHist EXCEPT !.dpi = IF hist.clean THEN hist.dpi ELSE @,
                                !.clean = hist.clean]
    /\ dirty' = FALSE
    /\ UNCHANGED <<dev, nops, nedits>>

\* the user changes the generic profile between driver calls
Edited ==
    /\ phase = "probed"
    /\ nedits < MaxEdits
    /\ nedits' = nedits + 1
    /\ dirty' = TRUE
    /\ io' = [IdleIo EXCEPT !.op = "edit"]
    /\ wire' = NoWire
    /\ hist' = [hist EXCEPT !.rt = FALSE]
    /\ UNCHANGED <<phase, config, prof, dev, nops>>

SetDpi ==
    \E i \in EditRes, d \in EditDpis :
        /\ Edited
        /\ resolutions' = [resolutions EXCEPT ![i].dpi_x = d[1], ![i].dpi_y = d[2]]
        /\ UNCHANGED leds

SetActive ==
    \E i \in EditRes :
        /\ Edited
        /\ resolutions' = [k \in ResIdx |->
                              [resolutions[k] EXCEPT !.is_active = (k = i)]]
        /\ UNCHANGED leds

SetLedMode ==
    \E m \in LedModes :
        /\ Edited
        /\ leds' = [leds EXCEPT ![0].mode = m]
        /\ UNCHANGED resolutions

SetLedColor ==
    \E i \in {0} \cup EditDpiLeds, c \in EditColors :
        /\ Edited
        /\ leds' = [leds EXCEPT ![i].color = c]
        /\ UNCHANGED resolutions

Next ==
    \/ sinowealth_probe
    \/ sinowealth_commit
    \/ sinowealth_remove
    \/ SetDpi
    \/ SetActive
    \/ SetLedMode
    \/ SetLedColor

Spec == Init /\ [][Next]_vars

(* ------------------------------------------------------------------ *)
(* Properties                                                         *)
(* ------------------------------------------------------------------ *)

\* the state right after a sinowealth_commit
AfterCommit == io.op = "commit"

\* the state right after a sinowealth_probe whose read returned 0
AfterRead == io.op = "probe" /\ io.stage = "get" /\ io.read_ret = 0

\* the report in the buffer the last commit handed to the transport
Committed == StructOfBytes(wire.data)

KnownEffects ==
    {RGB_OFF, RGB_GLORIOUS, RGB_SINGLE, RGB_BREATHING7, RGB_TAIL,
     RGB_BREATHING, RGB_RAVE, RGB_WAVE, RGB_BREATHING1}

CycleEffects ==
    {RGB_GLORIOUS, RGB_BREATHING, RGB_BREATHING7, RGB_TAIL, RGB_RAVE, RGB_WAVE}

\* C1: after a commit the 0x80 bit of the committed flags byte is set
\* exactly when some resolution has dpi_x # dpi_y with both nonzero.
C1_XYBitIffIndependentResolution ==
    AfterCommit =>
        ((Bit(wire.data[11], 7) = 1)
         <=> (\E i \in ResIdx :
                 /\ resolutions[i].dpi_x # resolutions[i].dpi_y
                 /\ resolutions[i].dpi_x # 0
                 /\ resolutions[i].dpi_y # 0))

\* C2: after a successful read every resolution's DPI list is
\* 0, 100, 200, ..., 12000 (121 entries).
C2_DpiListIsZeroThenHundredsTo12000 ==
    AfterRead =>
        \A i \in ResIdx :
            /\ Len(resolutions[i].dpis) = 121
            /\ \A k \in 1..121 : resolutions[i].dpis[k] = (k - 1) * 100

\* C3: when the read-trigger write does not return 6, or the
\* get-feature-report call returns a negative code or fewer than 97
\* bytes, the read returns an error and the cached report and the profile
\* are as they were before it (zeroed drv_data, freshly initialised
\* profile).
C3_TransportFailureFailsReadAndLeavesState ==
    (/\ io.op = "probe"
     /\ \/ io.stage = "cmd" /\ io.rc_cmd # 6
        \/ io.stage = "get" /\ (io.rc_get < 0 \/ io.rc_get < 97))
    => /\ io.read_ret # 0
       /\ config = ZeroConfig
       /\ resolutions = InitResolutions
       /\ leds = InitLeds
       /\ prof = InitProf

\* C4: a commit that starts from the report last read leaves the flag bits
\* other than 0x80, the unknown bytes, lift_off_distance and the sub-fields
\* of the effects the LED mode does not select as they were read.
C4_CommitKeepsOpaqueFields ==
    (AfterCommit /\ hist.pre = hist.read) =>
        /\ Committed.config % 128 = hist.read.config % 128
        /\ Committed.unk1 = hist.read.unk1
        /\ Committed.unk2 = hist.read.unk2
        /\ Committed.unk4 = hist.read.unk4
        /\ Committed.lift_off_distance = hist.read.lift_off_distance
        /\ Committed.glorious_mode = hist.read.glorious_mode
        /\ Committed.glorious_direction = hist.read.glorious_direction
        /\ Committed.breathing_mode = hist.read.breathing_mode
        /\ Committed.breathing_colorcount = hist.read.breathing_colorcount
        /\ Committed.breathing_colors = hist.read.breathing_colors
        /\ Committed.tail_mode = hist.read.tail_mode
        /\ Committed.rave_mode = hist.read.rave_mode
        /\ Committed.rave_colors = hist.read.rave_colors
        /\ Committed.wave_mode = hist.read.wave_mode
        /\ Committed.breathing1_mode = hist.read.breathing1_mode
        /\ (leds[0].mode # RATBAG_LED_ON
               => Committed.single_color = hist.read.single_color)
        /\ (leds[0].mode # RATBAG_LED_BREATHING
               => Committed.breathing1_color = hist.read.breathing1_color)

\* C5: the committed active_dpi is the index of the profile's active
\* resolution plus 1.
C5_CommittedActiveSlotIsIndexPlusOne ==
    AfterCommit =>
        \A i \in ResIdx :
            resolutions[i].is_active => Committed.active_dpi = i + 1

\* C6: after a commit, bit i of dpi_enabled is set exactly when resolution
\* i has dpi_x = 0 or dpi_y = 0, and bits 6 and 7 are set; after a read of
\* a report with bit i set, resolution i has dpi_x = dpi_y = 0.
C6_EnableMaskInverted ==
    /\ AfterCommit =>
          /\ \A i \in ResIdx :
                (Bit(wire.data[13], i) = 1)
                <=> (resolutions[i].dpi_x = 0 \/ resolutions[i].dpi_y = 0)
          /\ Bit(wire.data[13], 6) = 1
          /\ Bit(wire.data[13], 7) = 1
    /\ AfterRead =>
          \A i \in ResIdx :
              Bit(config.dpi_enabled, i) = 1
              => resolutions[i].dpi_x = 0 /\ resolutions[i].dpi_y = 0

\* a commit wrote the mask for a resolution with a zero axis (bit set) and
\* for an enabled one (bit clear), after a read of an XY-independent report
\* that had a disabled slot with nonzero raw bytes
C6_Witness ==
    /\ AfterCommit
    /\ \E i \in ResIdx :
          /\ resolutions[i].dpi_x = 0 \/ resolutions[i].dpi_y = 0
          /\ Bit(wire.data[13], i) = 1
    /\ \E i \in ResIdx :
          /\ resolutions[i].dpi_x # 0 /\ resolutions[i].dpi_y # 0
          /\ Bit(wire.data[13], i) = 0
    /\ hist.read.config >= 128
    /\ \E i \in ResIdx :
          /\ Bit(hist.read.dpi_enabled, i) = 1
          /\ hist.read.dpi[2 * i] # 0
          /\ hist.dpi[i] = <<0, 0>>

\* C7: a read of any cycle-family effect gives LED mode cycle and a commit
\* with the LED untouched writes GLORIOUS; OFF, SINGLE and BREATHING1 come
\* back as themselves, SINGLE and BREATHING1 with the colour that was read.
C7_LightingRoundTripIsLossy ==
    /\ (AfterRead /\ config.rgb_effect \in CycleEffects)
          => leds[0].mode = RATBAG_LED_CYCLE
    /\ (AfterCommit /\ leds[0] = hist.led0) =>
          /\ hist.read.rgb_effect \in CycleEffects
                => Committed.rgb_effect = RGB_GLORIOUS
          /\ hist.read.rgb_effect = RGB_OFF
                => Committed.rgb_effect = RGB_OFF
          /\ hist.read.rgb_effect = RGB_SINGLE
                => /\ Committed.rgb_effect = RGB_SINGLE
                   /\ Committed.single_color = hist.read.single_color
          /\ hist.read.rgb_effect = RGB_BREATHING1
                => /\ Committed.rgb_effect = RGB_BREATHING1
                   /\ Committed.breathing1_color = hist.read.breathing1_color

\* WAVE was read, the LED left alone, and the commit wrote GLORIOUS
C7_Witness ==
    /\ AfterCommit
    /\ hist.full
    /\ leds[0] = hist.led0
    /\ hist.read.rgb_effect = RGB_WAVE
    /\ Committed.rgb_effect = RGB_GLORIOUS

\* C8: a commit writes report 0x04, 520 bytes, with config_write = 0x7b and
\* zeros after the struct, once; it returns 0 exactly when the transport
\* returned 520.
C8_CommitBufferAndResult ==
    AfterCommit =>
        /\ wire.report_id = 4
        /\ wire.len = 520
        /\ Len(wire.data) = 520
        /\ wire.data[4] = 123
        /\ \A k \in 98..520 : wire.data[k] = 0
        /\ wire.attempts = 1
        /\ (io.ret = 0) <=> (io.rc_set = 520)

\* a short write of 519 bytes was reported as a failure
C8_Witness ==
    /\ AfterCommit
    /\ io.rc_set = 519
    /\ io.ret # 0
    /\ wire.data[54] # 0

\* C9: a read of a report whose effect_id is in no table returns 0, leaves
\* the body LED's mode and colour as they were, and fills in the
\* resolutions, the six indicator LEDs and the profile's active flag.
C9_UnknownEffectDoesNotFailRead ==
    (/\ io.op = "probe"
     /\ io.stage = "get"
     /\ io.rc_get >= 97
     /\ dev[54] \notin KnownEffects)
    => /\ io.read_ret = 0
       /\ io.ret = 0
       /\ leds[0].mode = InitLeds[0].mode
       /\ leds[0].color = InitLeds[0].color
       /\ \A i \in ResIdx :
             /\ resolutions[i].dpis # <<>>
             /\ resolutions[i].is_active = (i = (dev[12] \div 16) - 1)
             /\ (Bit(dev[13], i) = 0 => resolutions[i].dpi_x >= 100)
       /\ \A i \in 1..6 :
             /\ leds[i].mode = RATBAG_LED_ON
             /\ leds[i].color = [red |-> dev[30 + 3 * (i - 1)],
                                 green |-> dev[31 + 3 * (i - 1)],
                                 blue |-> dev[32 + 3 * (i - 1)]]
       /\ prof.is_active

\* the device held effect_id 11 and the probe succeeded
C9_Witness ==
    /\ io.op = "probe"
    /\ io.stage = "get"
    /\ io.rc_get >= 97
    /\ dev[54] = 11
    /\ phase = "probed"
    /\ resolutions[0].dpi_x = 800

\* C10: a read, a commit of the unmodified profile and a read of the
\* committed bytes give every resolution the (dpi_x, dpi_y) of the first
\* read.
C10_DpiRoundTrip ==
    (AfterRead /\ hist.rt) => DpiPairs(resolutions) = hist.prev_dpi

====
